---- MODULE Spec2Model ----
(***************************************************************************)
(* LiveBTC (PVEBTC_Live): the refresh-and-fallback engine of src/src/mod.ts *)
(* as a state machine.  One request is one call of LBPR.updatePrice; the   *)
(* events of a request are the ones Node's https client delivers to the    *)
(* three handlers the code registers (req 'error', req 'timeout', res      *)
(* 'end').  An awaiting caller resumes as a microtask, i.e. before any     *)
(* further event or timer callback runs.                                   *)
(***************************************************************************)
EXTENDS Integers, Sequences, FiniteSets, TLC

VARIABLES
    configFile,   \* content of config/config.json on disk
    cacheFile,    \* content of config/price.json on disk
    fsWritable,   \* whether fs.mkdirSync / fs.writeFileSync succeed
    config,       \* LBPR.config
    bitcoin,      \* LBPR.bitcoin (the handbook item, or null)
    now,          \* Date.now(), milliseconds
    pc,           \* position of postDBLoadAsync
    timers,       \* number of setInterval timers armed
    ticks,        \* number of timer callbacks started
    reqs,         \* the requests issued by updatePrice, in order of issue
    unhandled,    \* rejected promises of timer callbacks nobody handles
    escaped,      \* whether postDBLoadAsync rejected towards the host
    log           \* the messages the last step handed to the logging sink

vars == <<configFile, cacheFile, fsWritable, config, bitcoin, now, pc,
          timers, ticks, reqs, unhandled, escaped, log>>

---------------------------------------------------------------------------
(* Bounds of the model *)

MaxTicks == 2
MaxAdvances == 1

\* the ages and TTLs, in hours, the validity of a cache record is compared over
MaxAgeHours == 7

(* Program constants *)

SecondsPerHour == 3600
MillisPerSecond == 1000
DefaultUpdateInterval == 2700
DefaultCacheExpirationHours == 6
DefaultApiTimeout == 15000

---------------------------------------------------------------------------
(* JavaScript values *)

Undefined == [t |-> "undefined"]
Null == [t |-> "null"]
NaN == [t |-> "NaN"]
Num(v) == [t |-> "number", v |-> v]
Str(s) == [t |-> "string", s |-> s]
Bool(b) == [t |-> "boolean", b |-> b]

\* typeof x === 'number' and x is not NaN
IsNum(x) == x.t = "number"

\* ToBoolean
Truthy(x) ==
    CASE x.t = "boolean" -> x.b
      [] x.t = "number" -> x.v # 0
      [] x.t = "string" -> x.s # ""
      [] x.t = "object" -> TRUE
      [] OTHER -> FALSE

\* a - b on numbers; undefined and non-numeric strings convert to NaN
JsSub(a, b) == IF IsNum(a) /\ IsNum(b) THEN Num(a.v - b.v) ELSE NaN

\* a number of seconds in milliseconds, the unit of the clock; anything else
\* as it is
ToMillis(x) == IF IsNum(x) THEN Num(x.v * MillisPerSecond) ELSE x

\* Math.floor(Date.now() / 1000)
FloorSeconds(time) == time \div MillisPerSecond

\* the age test with >= in the place of >
JsHoursGreater_OrEqual(millis, hours) ==
    IF IsNum(millis) /\ IsNum(hours)
    THEN millis.v >= hours.v * SecondsPerHour * MillisPerSecond
    ELSE FALSE

\* (age in seconds / 3600) > hours, the age held in milliseconds; every
\* comparison with NaN or undefined is false
JsHoursGreater(millis, hours) ==
    IF IsNum(millis) /\ IsNum(hours)
    THEN millis.v > hours.v * SecondsPerHour * MillisPerSecond
    ELSE FALSE

\* a rational basePrice n/d (d > 0) as the API's JSON number
Rat(n, d) == [t |-> "number", n |-> n, d |-> d]

\* Math.ceil in the place of Math.floor
MathCeil(p) == -((-p.n) \div p.d)

MathFloor(p) == p.n \div p.d

---------------------------------------------------------------------------
(* Config *)

Advanced(caching, ttl, timeout, ua) ==
    [t |-> "object", enablePriceCaching |-> caching,
     cacheExpirationHours |-> ttl, apiTimeout |-> timeout, userAgent |-> ua]

ConfigObject(interval, logging, periodic, adv) ==
    [t |-> "object", updateInterval |-> interval, enableLogging |-> logging,
     enablePeriodicUpdates |-> periodic, advanced |-> adv]

DefaultConfig ==
    ConfigObject(Num(DefaultUpdateInterval), Bool(TRUE), Bool(TRUE),
        Advanced(Bool(TRUE), Num(DefaultCacheExpirationHours),
                 Num(DefaultApiTimeout), Str("SPT-LiveBTC-PVE")))

\* the default config the older variant of the mod wrote: no cacheExpirationHours
OlderDefaultConfig ==
    ConfigObject(Num(DefaultUpdateInterval), Bool(TRUE), Bool(TRUE),
        Advanced(Bool(TRUE), Undefined,
                 Num(DefaultApiTimeout), Str("SPT-LiveBTC-PVE")))

\* the JSON value {}
EmptyObject == ConfigObject(Undefined, Undefined, Undefined, Undefined)

\* files on disk: absent, text JSON.parse rejects, or the text of a JSON value
Missing == [kind |-> "missing"]
EmptyFile == [kind |-> "empty"]
Malformed == [kind |-> "malformed"]
JsonFile(v) == [kind |-> "json", value |-> v]

\* JSON.parse throws a SyntaxError on this content
ParseThrows(f) == f.kind \in {"empty", "malformed"}


\* loadConfig holding the default config in memory without writing the file
LoadConfig_NotPersisted(file, writable) ==
    IF file = Missing
    THEN [threw |-> FALSE, file |-> file, config |-> DefaultConfig]
    ELSE IF ParseThrows(file)
         THEN [threw |-> FALSE, file |-> file, config |-> DefaultConfig]
         ELSE [threw |-> FALSE, file |-> file, config |-> file.value]

\* LBPR.loadConfig: what it leaves on disk and in LBPR.config, and whether it
\* threw (mkdirSync and writeFileSync run outside its try block)
LoadConfig(file, writable) ==
    IF file = Missing
    THEN IF writable
         THEN [threw |-> FALSE, file |-> JsonFile(DefaultConfig), config |-> DefaultConfig]
         ELSE [threw |-> TRUE, file |-> file, config |-> Null]
    ELSE IF ParseThrows(file)
         THEN [threw |-> FALSE, file |-> file, config |-> DefaultConfig]
         ELSE [threw |-> FALSE, file |-> file, config |-> file.value]

\* the messages LBPR.loadConfig hands to LBPR.log
LoadConfigLog(file) ==
    IF file # Missing /\ ParseThrows(file)
    THEN <<[m |-> "Failed to load config"]>>
    ELSE <<>>

\* LBPR.config?.advanced?.enablePriceCaching
CachingEnabled(cfg) ==
    /\ cfg.t = "object"
    /\ cfg.advanced.t = "object"
    /\ Truthy(cfg.advanced.enablePriceCaching)

\* setInterval called whatever enablePeriodicUpdates says
PeriodicEnabled_Always(cfg) == TRUE

\* LBPR.config?.enablePeriodicUpdates
PeriodicEnabled(cfg) == cfg.t = "object" /\ Truthy(cfg.enablePeriodicUpdates)

\* the timeout option handed to request(): apiTimeout || 15000
TimeoutOption(cfg) ==
    IF cfg.t = "object" /\ cfg.advanced.t = "object" /\ Truthy(cfg.advanced.apiTimeout)
    THEN cfg.advanced.apiTimeout
    ELSE Num(DefaultApiTimeout)

\* request() validates its options when it constructs the request and throws
\* on a timeout that is not a number
RequestThrows(cfg) == ~IsNum(TimeoutOption(cfg))

---------------------------------------------------------------------------
(* Logging *)

\* a message of LBPR.log, named by what it reports
Msg(m) == [m |-> m]

\* the difference taken from zero in the place of the old price
Delta_FromZero(old, new) == [m |-> "delta", old |-> old, new |-> new, diff |-> new]

\* the message of a successful update: old price, new price, signed difference
Delta(old, new) == [m |-> "delta", old |-> old, new |-> new, diff |-> new - old]

\* LBPR.config?.enableLogging
LoggingEnabled(cfg) == cfg.t = "object" /\ Truthy(cfg.enableLogging)

\* LBPR.log under the config in force: the messages that reach the sink
\* (the host's logger, or the console when it has no such method)
Logged(cfg, msgs) == IF LoggingEnabled(cfg) THEN msgs ELSE <<>>

---------------------------------------------------------------------------
(* Price cache *)

\* the object written to price.json; price stands for the entry keyed by BITCOIN_ID
CacheRecord(price, mode, lastUpdate) ==
    [t |-> "object", price |-> price, gameMode |-> mode, lastUpdate |-> lastUpdate]

\* LBPR.loadCachedPrice: Num(price), or Null
LoadCachedPrice(cfg, file, time) ==
    IF ~CachingEnabled(cfg) THEN Null
    ELSE IF file = Missing THEN Null
    ELSE IF ParseThrows(file) THEN Null
    ELSE IF file.value.t # "object" THEN Null
    ELSE LET bitcoinPrice == file.value.price
             cacheAge == JsSub(Num(time), ToMillis(file.value.lastUpdate))
             maxCacheAgeHours == cfg.advanced.cacheExpirationHours
         IN  IF ~IsNum(bitcoinPrice) THEN Null
             ELSE IF bitcoinPrice.v <= 0 THEN Null
             ELSE IF JsHoursGreater(cacheAge, maxCacheAgeHours) THEN Null
             ELSE bitcoinPrice

\* the messages of LBPR.loadCachedPrice
LoadCachedPriceLog(cfg, file, time) ==
    IF ~CachingEnabled(cfg) THEN <<>>
    ELSE IF file = Missing THEN <<Msg("No price cache file found")>>
    ELSE IF ParseThrows(file) THEN <<Msg("Failed to load cached price")>>
    ELSE IF file.value.t # "object" THEN <<Msg("Failed to load cached price")>>
    ELSE IF ~IsNum(file.value.price) THEN <<Msg("Invalid Bitcoin price in cache")>>
    ELSE IF file.value.price.v <= 0 THEN <<Msg("Invalid Bitcoin price in cache")>>
    ELSE IF JsHoursGreater(JsSub(Num(time), ToMillis(file.value.lastUpdate)),
                           cfg.advanced.cacheExpirationHours)
    THEN <<Msg("Cache expired")>>
    ELSE <<Msg("Cache is valid")>>

\* savePriceToCache with a catch block that logs nothing
SavePriceToCacheLog_Silent(cfg, writable) ==
    IF CachingEnabled(cfg) /\ writable
    THEN <<Msg("Price cached successfully")>>
    ELSE <<>>

\* the messages of LBPR.savePriceToCache
SavePriceToCacheLog(cfg, writable) ==
    IF ~CachingEnabled(cfg) THEN <<>>
    ELSE IF ~writable THEN <<Msg("Failed to save price to cache")>>
    ELSE <<Msg("Price cached successfully")>>

\* savePriceToCache writing nothing
SavePriceToCache_Never(cfg, file, writable, price, time) == file

\* savePriceToCache without its test of enablePriceCaching
SavePriceToCache_Unconditional(cfg, file, writable, price, time) ==
    IF ~writable THEN file
    ELSE JsonFile(CacheRecord(Num(price), Str("pve"), Num(FloorSeconds(time))))

\* LBPR.savePriceToCache: the content of price.json afterwards
SavePriceToCache(cfg, file, writable, price, time) ==
    IF ~CachingEnabled(cfg) THEN file
    ELSE IF ~writable THEN file
    ELSE JsonFile(CacheRecord(Num(price), Str("pve"), Num(FloorSeconds(time))))

---------------------------------------------------------------------------
(* Fallback and the handlers of updatePrice *)

Item(price) == [t |-> "object", Id |-> "59faff1d86f7746c51718c9c", Price |-> price]

\* LBPR.handleApiFailure: LBPR.bitcoin afterwards
HandleApiFailure(btc, cfg, file, time) ==
    IF btc = Null THEN btc
    ELSE LET cachedPrice == LoadCachedPrice(cfg, file, time)
         IN  IF cachedPrice # Null /\ cachedPrice.v # btc.Price
             THEN [btc EXCEPT !.Price = cachedPrice.v]
             ELSE btc

\* the messages of LBPR.handleApiFailure
HandleApiFailureLog(btc, cfg, file, time) ==
    IF btc = Null THEN <<>>
    ELSE LET cachedPrice == LoadCachedPrice(cfg, file, time)
         IN  LoadCachedPriceLog(cfg, file, time) \o
             (IF cachedPrice # Null /\ cachedPrice.v # btc.Price
              THEN <<Msg("Fallback to cached price")>>
              ELSE IF cachedPrice # Null
              THEN <<Msg("Current price matches cache")>>
              ELSE <<Msg("No valid cache available, keeping current price")>>)

\* what a handler leaves: the item, the cache file and the value it resolves with
Outcome(btc, file, value) == [bitcoin |-> btc, cacheFile |-> file, resolve |-> value]

\* a parsed response: its errors member, and data?.items?.[0]
Response(errors, item0) == [t |-> "object", errors |-> errors, item0 |-> item0]
PriceItem(basePrice) == [t |-> "object", basePrice |-> basePrice]

\* !newPrice || newPrice <= 0
InvalidPrice(newPrice) == newPrice = Undefined \/ newPrice.n <= 0

\* the res 'end' handler on the body received
OnEnd(body, btc, cfg, file, writable, time) ==
    IF ParseThrows(body) \/ body.value = Null
    THEN Outcome(HandleApiFailure(btc, cfg, file, time), file, "false")
    ELSE IF Truthy(body.value.errors) \/ ~Truthy(body.value.item0)
    THEN Outcome(HandleApiFailure(btc, cfg, file, time), file, "false")
    ELSE IF InvalidPrice(body.value.item0.basePrice)
    THEN Outcome(HandleApiFailure(btc, cfg, file, time), file, "false")
    ELSE IF btc = Null
    THEN Outcome(btc, file, "false")
    ELSE LET newPrice == MathFloor(body.value.item0.basePrice)
         IN  Outcome([btc EXCEPT !.Price = newPrice],
                     SavePriceToCache(cfg, file, writable, newPrice, time), "true")

\* the messages of the res 'end' handler
OnEndLog(body, btc, cfg, file, writable, time) ==
    IF ParseThrows(body) \/ body.value = Null
    THEN <<Msg("Error parsing API response")>> \o HandleApiFailureLog(btc, cfg, file, time)
    ELSE IF Truthy(body.value.errors) \/ ~Truthy(body.value.item0)
    THEN <<Msg("Failed to fetch Bitcoin price data")>> \o HandleApiFailureLog(btc, cfg, file, time)
    ELSE IF InvalidPrice(body.value.item0.basePrice)
    THEN <<Msg("Invalid price received from API")>> \o HandleApiFailureLog(btc, cfg, file, time)
    ELSE IF btc = Null
    THEN <<Msg("Bitcoin object is null")>>
    ELSE <<Delta(btc.Price, MathFloor(body.value.item0.basePrice))>> \o
         SavePriceToCacheLog(cfg, writable)

\* the messages of the req 'error' handler
OnErrorLog(btc, cfg, file, time) ==
    <<Msg("API error")>> \o HandleApiFailureLog(btc, cfg, file, time)

\* the messages of the req 'timeout' handler
OnTimeoutLog(btc, cfg, file, time) ==
    <<Msg("API request timeout")>> \o HandleApiFailureLog(btc, cfg, file, time)

\* the req 'error' handler deleting the cache file it fell back on
OnError_DropsCache(btc, cfg, file, time) ==
    Outcome(HandleApiFailure(btc, cfg, file, time), Missing, "false")

\* the req 'error' handler
OnError(btc, cfg, file, time) ==
    Outcome(HandleApiFailure(btc, cfg, file, time), file, "false")

\* a 'timeout' handler that resolves without the fallback
OnTimeout_NoFallback(btc, cfg, file, time) == Outcome(btc, file, "false")

\* the req 'timeout' handler (it also destroys the request)
OnTimeout(btc, cfg, file, time) ==
    Outcome(HandleApiFailure(btc, cfg, file, time), file, "false")

---------------------------------------------------------------------------
(* Inputs *)

\* the clock when the host calls postDBLoadAsync, half a second into a
\* second, and how far one step moves it: to six hours after the start of
\* that second
StartTime == 24 * SecondsPerHour * MillisPerSecond + 500
AdvanceStep == 6 * SecondsPerHour * MillisPerSecond - 500
HoursAgo(h) == Num(FloorSeconds(StartTime) - h * SecondsPerHour)

\* what the handbook lookup yields: the item with its handbook price, or nothing
HandbookItems == {Null, Item(13000)}

\* the host's container: whether resolving the logger or reading the
\* database tables throws, and what the handbook lookup yields
Container(fault, item) == [fault |-> fault, item |-> item]

Containers ==
    {Container("none", item) : item \in HandbookItems}
    \cup {Container("WinstonLogger", Null), Container("DatabaseServer", Null)}

ConfigFiles ==
    {Missing, EmptyFile, Malformed,
     JsonFile(Null), JsonFile(EmptyObject), JsonFile(OlderDefaultConfig),
     JsonFile(DefaultConfig),
     JsonFile([DefaultConfig EXCEPT !.enablePeriodicUpdates = Bool(FALSE)]),
     JsonFile([DefaultConfig EXCEPT !.advanced.enablePriceCaching = Bool(FALSE)]),
     JsonFile([DefaultConfig EXCEPT !.advanced.apiTimeout = Str("15000")])}

\* price.json as the engine writes it, or without its timestamp
RecordFiles ==
    {JsonFile(CacheRecord(Num(14000), Str("pve"), HoursAgo(1))),
     JsonFile(CacheRecord(Num(13000), Str("pve"), HoursAgo(1))),
     JsonFile(CacheRecord(Num(14000), Str("pve"), HoursAgo(7))),
     JsonFile(CacheRecord(Num(14000), Str("pve"), Undefined))}

\* price.json without a price to load
UnusableFiles ==
    {Malformed,
     JsonFile(CacheRecord(Num(0), Str("pve"), HoursAgo(1))),
     JsonFile(CacheRecord(Str("14000"), Str("pve"), HoursAgo(1)))}

CacheFiles == {Missing} \cup RecordFiles \cup UnusableFiles

\* a record written an hour before the start
FreshRecord == JsonFile(CacheRecord(Num(14000), Str("pve"), HoursAgo(1)))

\* the config files whose loading ends with the default config, and the
\* default config with caching switched off
DefaultedFiles ==
    {Missing, EmptyFile, Malformed,
     JsonFile([DefaultConfig EXCEPT !.advanced.enablePriceCaching = Bool(FALSE)])}

\* the starts explored: the default config file with every cache file and
\* with a file system that rejects writes; the config files that end as the
\* default with no record or a fresh one; every other config file with
\* every record file
Starts ==
    {s \in [configFile : ConfigFiles, cacheFile : CacheFiles, fsWritable : BOOLEAN] :
        IF s.configFile = JsonFile(DefaultConfig)
        THEN s.fsWritable \/ s.cacheFile \in {Missing} \cup RecordFiles
        ELSE IF s.configFile \in DefaultedFiles
        THEN /\ s.cacheFile \in {Missing, FreshRecord}
             /\ (s.fsWritable \/ s.configFile = Missing)
        ELSE s.fsWritable /\ s.cacheFile \in {Missing} \cup RecordFiles}

BasePrices ==
    {Undefined, Rat(-5, 1), Rat(0, 1), Rat(1, 2), Rat(30001, 2), Rat(15000, 1)}

\* the bodies a response can end with
Bodies ==
    {Malformed, JsonFile(Null),
     JsonFile(Response(Str("errors"), Undefined)),
     JsonFile(Response(Undefined, Undefined))}
    \cup {JsonFile(Response(Undefined, PriceItem(p))) : p \in BasePrices}

---------------------------------------------------------------------------
(* Requests *)

\* a request right after req.end(): on the wire, its promise pending
\* its caller remembers nothing of the item; priceAtStart is what the item's
\* price was when the caller called updatePrice, kept while the caller lives
NewRequest(item) ==
    [phase |-> "sent", promise |-> "pending", outcomes |-> 0, resumed |-> FALSE,
     priceAtStart |-> IF item = Null THEN Undefined ELSE Num(item.Price)]

\* resolve(value): a promise settles once
Settle(promise, value) == IF promise = "pending" THEN value ELSE promise

\* a settled promise whose awaiting caller has not resumed yet; the caller
\* resumes before any other callback runs
MicrotaskPending ==
    \E i \in 1..Len(reqs) : reqs[i].promise # "pending" /\ ~reqs[i].resumed

\* updatePrice() called without await: the caller goes on at once
StartupResumes_NoAwait == TRUE

\* the await of postDBLoadAsync resumes once the startup promise is settled
StartupResumes == reqs[1].promise # "pending"

\* setInterval called ahead of the startup fetch
TimerArmed_BeforeStartupFetch == pc # "init"

\* the callback of setInterval runs only once postDBLoadAsync has armed it
TimerArmed == timers > 0

Init ==
    /\ \E s \in Starts :
         /\ configFile = s.configFile
         /\ cacheFile = s.cacheFile
         /\ fsWritable = s.fsWritable
    /\ config = Null
    /\ bitcoin = Null
    /\ now = StartTime
    /\ pc = "init"
    /\ timers = 0
    /\ ticks = 0
    /\ reqs = <<>>
    /\ unhandled = 0
    /\ escaped = FALSE
    /\ log = <<>>

\* the try block of postDBLoadAsync spans its whole body and its catch block
\* only logs: nothing thrown inside reaches the host
Rejects(thrown) == FALSE

\* the lookup result taken as found whatever it is
ItemFound_Unchecked(item) == TRUE

\* the test of the lookup result: if (!LBPR.bitcoin) return
ItemFound(item) == item # Null

\* what postDBLoadAsync throws inside its try block before its await
Thrown(container, lc) ==
    IF container.fault = "WinstonLogger" THEN "WinstonLogger"
    ELSE IF lc.threw THEN "loadConfig"
    ELSE IF container.fault = "DatabaseServer" THEN "DatabaseServer"
    ELSE IF ItemFound(container.item) /\ RequestThrows(lc.config) THEN "request"
    ELSE "none"

\* postDBLoadAsync up to its await: the logger, loadConfig, the handbook
\* lookup and the call of updatePrice, with the catch block for whatever
\* these throw
PostDBLoadAsync(container) ==
    /\ pc = "init"
    /\ LET lc == LoadConfig(configFile, fsWritable)
           thrown == Thrown(container, lc)
           loaded == thrown # "WinstonLogger"
           looked == thrown \notin {"WinstonLogger", "loadConfig", "DatabaseServer"}
           cfg == IF loaded THEN lc.config ELSE config
       IN  /\ configFile' = IF loaded THEN lc.file ELSE configFile
           /\ config' = cfg
           /\ bitcoin' = IF looked THEN container.item ELSE bitcoin
           /\ pc' = IF thrown # "none" THEN "failed"
                    ELSE IF ~ItemFound(container.item) THEN "inert"
                    ELSE "awaiting"
           /\ reqs' = IF thrown = "none" /\ ItemFound(container.item)
                      THEN Append(reqs, NewRequest(container.item))
                      ELSE reqs
           /\ escaped' = Rejects(thrown)
           /\ log' = (IF loaded THEN Logged(config, LoadConfigLog(configFile)) ELSE <<>>)
                      \o (IF looked /\ ~ItemFound(container.item)
                          THEN Logged(cfg, <<Msg("Physical Bitcoin not found in handbook!")>>)
                          ELSE <<>>)
                      \o (IF looked /\ ItemFound(container.item)
                          THEN Logged(cfg, <<Msg("LiveBTC initialized"),
                                             Msg("Current Bitcoin price"),
                                             Msg("Fetching live Bitcoin price on startup")>>)
                          ELSE <<>>)
                      \o (IF thrown # "none"
                          THEN Logged(cfg, <<Msg("LBPR initialization failed")>>)
                          ELSE <<>>)
    /\ UNCHANGED <<cacheFile, fsWritable, now, timers, ticks, unhandled>>

\* postDBLoadAsync after its await: the startup fallback and setInterval
StartupContinue ==
    /\ pc = "awaiting"
    /\ StartupResumes
    /\ ~reqs[1].resumed
    /\ bitcoin' = IF reqs[1].promise = "true"
                  THEN bitcoin
                  ELSE LET cachedPrice == LoadCachedPrice(config, cacheFile, now)
                       IN  IF cachedPrice # Null
                           THEN [bitcoin EXCEPT !.Price = cachedPrice.v]
                           ELSE bitcoin
    /\ timers' = IF PeriodicEnabled(config) THEN timers + 1 ELSE timers
    /\ reqs' = [reqs EXCEPT ![1].resumed = TRUE, ![1].priceAtStart = Undefined]
    /\ pc' = "done"
    /\ log' = Logged(config,
                 (IF reqs[1].promise = "true"
                  THEN <<Msg("Price updated successfully with fresh live data")>>
                  ELSE <<Msg("API failed on startup")>>
                       \o LoadCachedPriceLog(config, cacheFile, now)
                       \o (IF LoadCachedPrice(config, cacheFile, now) # Null
                           THEN <<Msg("Using cached Bitcoin price as fallback")>>
                           ELSE <<Msg("No valid cached price available")>>))
                 \o (IF PeriodicEnabled(config)
                     THEN <<Msg("Updates scheduled")>>
                     ELSE <<>>))
    /\ UNCHANGED <<configFile, cacheFile, fsWritable, config, now, ticks, unhandled,
                   escaped>>

\* the setInterval callback up to its await
TimerTick ==
    /\ TimerArmed
    /\ ticks < MaxTicks
    /\ ~MicrotaskPending
    /\ ticks' = ticks + 1
    /\ IF RequestThrows(config)
       THEN unhandled' = unhandled + 1 /\ reqs' = reqs
       ELSE unhandled' = unhandled /\ reqs' = Append(reqs, NewRequest(bitcoin))
    /\ log' = Logged(config, <<Msg("Scheduled price update starting")>>)
    /\ UNCHANGED <<configFile, cacheFile, fsWritable, config, bitcoin, now, pc, timers,
                   escaped>>

\* the setInterval callback after its await
TickContinue(i) ==
    /\ i > 1
    /\ reqs[i].promise # "pending"
    /\ ~reqs[i].resumed
    /\ reqs' = [reqs EXCEPT ![i].resumed = TRUE, ![i].priceAtStart = Undefined]
    /\ log' = IF reqs[i].promise = "false"
              THEN Logged(config, <<Msg("Scheduled update failed, price remains unchanged")>>)
              ELSE <<>>
    /\ UNCHANGED <<configFile, cacheFile, fsWritable, config, bitcoin, now, pc,
                   timers, ticks, unhandled, escaped>>

\* a handler of request i ran: its effect on the item, the cache and the promise
Handled(i, out, msgs, phase) ==
    /\ bitcoin' = out.bitcoin
    /\ log' = Logged(config, msgs)
    /\ cacheFile' = out.cacheFile
    /\ reqs' = [reqs EXCEPT ![i].phase = phase,
                            ![i].promise = Settle(@, out.resolve),
                            ![i].outcomes = @ + 1]
    /\ UNCHANGED <<configFile, fsWritable, config, now, pc, timers, ticks, unhandled,
                   escaped>>

\* the socket fails before or while the response arrives: req 'error'
ReqError(i) ==
    /\ reqs[i].phase \in {"sent", "receiving"}
    /\ ~MicrotaskPending
    /\ Handled(i, OnError(bitcoin, config, cacheFile, now),
               OnErrorLog(bitcoin, config, cacheFile, now), "closed")

\* the socket idles past the timeout: req 'timeout'; the handler destroys
\* the request, which raises 'error' (socket hang up) when no response has
\* arrived yet
ReqTimeout(i) ==
    /\ reqs[i].phase \in {"sent", "receiving"}
    /\ ~MicrotaskPending
    /\ Handled(i, OnTimeout(bitcoin, config, cacheFile, now),
               OnTimeoutLog(bitcoin, config, cacheFile, now),
               IF reqs[i].phase = "sent" THEN "aborting" ELSE "closed")

\* the 'error' event of a request destroyed before its response
AbortError(i) ==
    /\ reqs[i].phase = "aborting"
    /\ ~MicrotaskPending
    /\ Handled(i, OnError(bitcoin, config, cacheFile, now),
               OnErrorLog(bitcoin, config, cacheFile, now), "closed")

\* the response's headers arrive: the callback of request() registers 'data' and 'end'
ResHeaders(i) ==
    /\ reqs[i].phase = "sent"
    /\ ~MicrotaskPending
    /\ reqs' = [reqs EXCEPT ![i].phase = "receiving"]
    /\ log' = <<>>
    /\ UNCHANGED <<configFile, cacheFile, fsWritable, config, bitcoin, now, pc,
                   timers, ticks, unhandled, escaped>>

\* the response ends with this body: res 'end'
ResEnd(i, body) ==
    /\ reqs[i].phase = "receiving"
    /\ ~MicrotaskPending
    /\ Handled(i, OnEnd(body, bitcoin, config, cacheFile, fsWritable, now),
               OnEndLog(body, bitcoin, config, cacheFile, fsWritable, now), "closed")

\* the connection closes before the body is complete: res 'aborted' and
\* 'close', for which no handler is registered
ResCut(i) ==
    /\ reqs[i].phase = "receiving"
    /\ ~MicrotaskPending
    /\ reqs' = [reqs EXCEPT ![i].phase = "closed"]
    /\ log' = <<>>
    /\ UNCHANGED <<configFile, cacheFile, fsWritable, config, bitcoin, now, pc,
                   timers, ticks, unhandled, escaped>>

\* time passes
Advance ==
    /\ now < StartTime + MaxAdvances * AdvanceStep
    /\ ~MicrotaskPending
    /\ now' = now + AdvanceStep
    /\ log' = <<>>
    /\ UNCHANGED <<configFile, cacheFile, fsWritable, config, bitcoin, pc,
                   timers, ticks, reqs, unhandled, escaped>>

Requests == 1..Len(reqs)

Next ==
    \/ \E container \in Containers : PostDBLoadAsync(container)
    \/ StartupContinue
    \/ TimerTick
    \/ Advance
    \/ \E i \in Requests : TickContinue(i)
    \/ \E i \in Requests : ReqError(i)
    \/ \E i \in Requests : ReqTimeout(i)
    \/ \E i \in Requests : AbortError(i)
    \/ \E i \in Requests : ResHeaders(i)
    \/ \E i \in Requests : ResCut(i)
    \/ \E i \in Requests : \E body \in Bodies : ResEnd(i, body)

Spec == Init /\ [][Next]_vars

---------------------------------------------------------------------------
(* The statements checked *)

\* a body that is a valid fetch response: it parses, carries no errors
\* payload, and its first item has a basePrice > 0
SuccessBodies ==
    {b \in Bodies : /\ b.kind = "json"
                    /\ b.value.t = "object"
                    /\ b.value.errors = Undefined
                    /\ b.value.item0 # Undefined
                    /\ b.value.item0.basePrice # Undefined
                    /\ b.value.item0.basePrice.n > 0}

FailureBodies == Bodies \ SuccessBodies

\* k is the floor of the rational p
IsFloorOf(k, p) == k * p.d <= p.n /\ p.n < (k + 1) * p.d

\* the file holds exactly this price, the pve tag and this timestamp
CacheHolds(file, price, time) ==
    file = JsonFile(CacheRecord(Num(price), Str("pve"), Num(FloorSeconds(time))))

\* C1 as stated: every response whose first item has basePrice p > 0 ends
\* the cycle with the item's price floor(p), with the cache record holding
\* that price and the current time whenever caching is enabled, and with
\* the cycle reporting success.
C1_SuccessWritesPriceAndCache ==
    [][\A i \in Requests : \A body \in SuccessBodies :
         ResEnd(i, body) =>
           /\ IsFloorOf(bitcoin'.Price, body.value.item0.basePrice)
           /\ (CachingEnabled(config) => CacheHolds(cacheFile', bitcoin'.Price, now))
           /\ reqs'[i].promise = "true"]_vars

\* C1 as amended: the same, the cache record being rewritten when caching is
\* enabled and the file can be written; a write that fails leaves the cache
\* file as it was, and a cycle with caching disabled leaves it as it was.
C1_SuccessWritesPriceAndCacheIfWritable ==
    [][\A i \in Requests : \A body \in SuccessBodies :
         ResEnd(i, body) =>
           /\ IsFloorOf(bitcoin'.Price, body.value.item0.basePrice)
           /\ IF CachingEnabled(config) /\ fsWritable
              THEN CacheHolds(cacheFile', bitcoin'.Price, now)
              ELSE cacheFile' = cacheFile
           /\ reqs'[i].promise = "true"]_vars

\* a fetch of 15000.5 has succeeded after the clock moved: the item holds
\* 15000 and the cache holds 15000 stamped with the current time
C1_Witness ==
    /\ \E i \in Requests : reqs[i].promise = "true"
    /\ bitcoin # Null
    /\ bitcoin.Price = 15000
    /\ now > StartTime
    /\ CacheHolds(cacheFile, 15000, now)

\* the cached price is valid in the words of the spec: caching enabled, a
\* record with a price > 0 and a timestamp, and now - lastUpdate <= ttl * 3600
ValidCache(cfg, file, time) ==
    /\ CachingEnabled(cfg)
    /\ file.kind = "json"
    /\ file.value.t = "object"
    /\ IsNum(file.value.price)
    /\ file.value.price.v > 0
    /\ IsNum(file.value.lastUpdate)
    /\ IsNum(cfg.advanced.cacheExpirationHours)
    /\ time - file.value.lastUpdate.v * MillisPerSecond
         <= cfg.advanced.cacheExpirationHours.v * SecondsPerHour * MillisPerSecond

\* a handler of request i handles a fetch failure
FailureHandling(i) ==
    \/ ReqError(i)
    \/ ReqTimeout(i)
    \/ AbortError(i)
    \/ \E body \in FailureBodies : ResEnd(i, body)

\* the startup fallback of postDBLoadAsync runs
StartupFallback == StartupContinue /\ reqs[1].promise = "false"

\* C2: every handling of a fetch failure, at startup or on a tick, leaves the
\* item's price equal to the cached price if that is valid, and equal to the
\* price before otherwise.
C2_FailureUsesOnlyValidCache ==
    [][((\E i \in Requests : FailureHandling(i)) \/ StartupFallback) =>
         bitcoin'.Price = IF ValidCache(config, cacheFile, now)
                          THEN cacheFile.value.price.v
                          ELSE bitcoin.Price]_vars

\* C3: a request whose connection is closed, so that no further event of it
\* can fire, has resolved its promise.
C3_ClosedRequestResolved ==
    \A i \in Requests : reqs[i].phase = "closed" => reqs[i].promise # "pending"

\* C4: the outcome handling of a request (success apply, or failure logging
\* plus fallback) has run at most once.
C4_OutcomeHandledOnce ==
    \A i \in Requests : reqs[i].outcomes <= 1

\* every field of the Config is populated
FullyPopulated(cfg) ==
    /\ cfg.t = "object"
    /\ IsNum(cfg.updateInterval) /\ cfg.updateInterval.v > 0
    /\ cfg.enableLogging.t = "boolean"
    /\ cfg.enablePeriodicUpdates.t = "boolean"
    /\ cfg.advanced.t = "object"
    /\ cfg.advanced.enablePriceCaching.t = "boolean"
    /\ IsNum(cfg.advanced.cacheExpirationHours) /\ cfg.advanced.cacheExpirationHours.v > 0
    /\ IsNum(cfg.advanced.apiTimeout) /\ cfg.advanced.apiTimeout.v > 0
    /\ cfg.advanced.userAgent.t = "string" /\ cfg.advanced.userAgent.s # ""

\* C5: once loadConfig has run (on a file system it can write), whatever the
\* config file held, LBPR.config is a Config with every field populated.
C5_ConfigLoadTotal ==
    (pc # "init" /\ fsWritable) => FullyPopulated(config)

\* C6: with a complete Config, loadCachedPrice returns the stored price
\* exactly when the record is valid in the words of the spec, and absent for
\* every other stored record.
C6_LoadReturnsOnlyValid ==
    FullyPopulated(config) =>
        LoadCachedPrice(config, cacheFile, now) =
            IF ValidCache(config, cacheFile, now) THEN cacheFile.value.price ELSE Null


\* C7: the timer is armed at most once, and it is armed, a tick has fired or
\* a tick's fetch exists only after the startup cycle has completed: the
\* startup promise is settled, its handler has run and postDBLoadAsync has
\* passed its fallback.
C7_TimerArmedOnceAfterStartup ==
    /\ timers <= 1
    /\ (timers > 0 \/ ticks > 0 \/ Len(reqs) > 1) =>
          /\ pc = "done"
          /\ reqs[1].promise # "pending"
          /\ reqs[1].outcomes >= 1
          /\ reqs[1].resumed

\* the startup fetch failed, the timer is armed and a tick has started a fetch
C7_Witness ==
    /\ timers = 1
    /\ ticks >= 1
    /\ Len(reqs) > 1
    /\ reqs[1].promise = "false"

\* C8: once postDBLoadAsync has returned with the item found and periodic
\* updates enabled, the timer is armed, whatever happened to the startup fetch.
C8_TimerArmedWhateverTheOutcome ==
    (pc \in {"done", "failed"} /\ bitcoin # Null /\ PeriodicEnabled(config)) =>
        timers = 1

\* a fetch is in flight: its connection is open and its promise pending
InFlight(i) == reqs[i].promise = "pending" /\ reqs[i].phase # "closed"
InFlightCount == Cardinality({i \in Requests : InFlight(i)})

\* C9 as stated: at most one fetch is in flight at any moment.
C9_SingleFetchInFlight == InFlightCount <= 1

\* C9 as amended: no tick starts a fetch while the startup fetch is pending,
\* so until the first tick at most one fetch is in flight; after that a tick
\* starts a fetch whether or not earlier ones are pending, and the fetches in
\* flight are at most one per tick fired.
C9_SingleFetchUntilFirstTick ==
    /\ (reqs # <<>> /\ reqs[1].promise = "pending") => Len(reqs) = 1
    /\ InFlightCount <= IF ticks = 0 THEN 1 ELSE ticks

\* two ticks have fired and the fetches of both are in flight
C9_Witness == ticks >= 2 /\ InFlightCount = ticks

\* the item the fallback leaves: the cached price if loadCachedPrice yields
\* one, the item as it was otherwise
FallbackItem(btc, cfg, file, time) ==
    LET cachedPrice == LoadCachedPrice(cfg, file, time)
    IN  IF cachedPrice = Null THEN btc ELSE Item(cachedPrice.v)

\* C10: whatever the failure reason (transport error, timeout, the error of
\* an aborted request, a body that does not parse, an errors payload or no
\* first item, a missing or non-positive basePrice), the handling leaves the
\* same item and cache, a function of the item, config, cache and clock
\* before it only, and the cycle reports failure; running the fallback
\* again at once (the error of the abort right after a timeout) changes
\* nothing more.
C10_FailureReasonsFallBackAlike ==
    [][\A i \in Requests :
         FailureHandling(i) =>
           /\ bitcoin' = FallbackItem(bitcoin, config, cacheFile, now)
           /\ cacheFile' = cacheFile
           /\ reqs'[i].promise = "false"
           /\ FallbackItem(bitcoin', config, cacheFile', now) = bitcoin']_vars

\* a request timed out and raised the error of its abort, and the item holds
\* the cached 14000 instead of the handbook's 13000
C10_Witness ==
    /\ \E i \in Requests : reqs[i].promise = "false" /\ reqs[i].outcomes = 2
    /\ bitcoin # Null
    /\ bitcoin.Price = 14000
    /\ ValidCache(config, cacheFile, now)

\* the log of a step holds this message
Emitted(l, m) == \E k \in 1..Len(l) : l[k].m = m

\* postDBLoadAsync runs with this container and reaches the handbook lookup
LooksUp(container) ==
    /\ PostDBLoadAsync(container)
    /\ container.fault = "none"
    /\ ~LoadConfig(configFile, fsWritable).threw

\* C11: when the handbook lookup finds no item, postDBLoadAsync logs the
\* error (logging being enabled in the config) and returns with no request
\* issued, no timer armed, no item, and the cache file as it was; and from
\* then on no step issues a request, arms or fires a timer, writes the
\* cache file or sets a price.
C11_ItemNotFoundIsInert ==
    [][/\ \A container \in Containers :
            LooksUp(container) /\ container.item = Null =>
              /\ pc' = "inert"
              /\ LoggingEnabled(config') =>
                    Emitted(log', "Physical Bitcoin not found in handbook!")
              /\ reqs' = <<>> /\ timers' = 0 /\ bitcoin' = Null
              /\ cacheFile' = cacheFile
       /\ pc = "inert" =>
            /\ pc' = "inert"
            /\ UNCHANGED <<bitcoin, cacheFile, reqs, timers, ticks, unhandled>>
            /\ log' = <<>>]_vars

\* the lookup found nothing under a config with logging enabled, and time
\* has passed since
C11_Witness ==
    /\ pc = "inert"
    /\ LoggingEnabled(config)
    /\ now > StartTime
    /\ reqs = <<>> /\ timers = 0 /\ ticks = 0 /\ bitcoin = Null

\* nothing thrown has reached the host: postDBLoadAsync has not rejected and
\* no timer callback has ended in a rejected promise
NothingEscapes == ~escaped /\ unhandled = 0

\* C12: whatever its collaborators and resources throw (resolving the
\* logger, reading the database, creating the config directory or file,
\* constructing the request) and however the startup fetch fails,
\* postDBLoadAsync neither rejects nor stays behind: once the startup request
\* is over, its promise is settled and postDBLoadAsync goes on to complete;
\* and no timer callback ends in a rejected promise.
C12_StartupCompletesQuietly ==
    /\ NothingEscapes
    /\ pc = "awaiting" /\ reqs[1].phase = "closed" => reqs[1].promise # "pending"

\* C13: when postDBLoadAsync loads a config file that exists and does not
\* parse, the error is logged, LBPR.config becomes the default config, and
\* the file is left as it was.
C13_ParseFailureLoggedAndDefaulted ==
    [][\A container \in Containers :
         /\ PostDBLoadAsync(container)
         /\ container.fault # "WinstonLogger"
         /\ configFile # Missing
         /\ ParseThrows(configFile)
         => /\ Emitted(log', "Failed to load config")
            /\ config' = DefaultConfig
            /\ configFile' = configFile]_vars

\* the part of C13 that holds: the default config in memory, the file as it was
ParseFailureDefaulted ==
    [][\A container \in Containers :
         /\ PostDBLoadAsync(container)
         /\ container.fault # "WinstonLogger"
         /\ configFile # Missing
         /\ ParseThrows(configFile)
         => /\ config' = DefaultConfig
            /\ configFile' = configFile]_vars

\* C14: every price a successful fetch writes, into the item and into the
\* cache file, is a positive integer, whatever basePrice > 0 the response
\* carries.
C14_WrittenPricesPositive ==
    [][\A i \in Requests : \A body \in SuccessBodies :
         ResEnd(i, body) =>
           /\ bitcoin'.Price \in Nat \ {0}
           /\ cacheFile' # cacheFile => cacheFile'.value.price.v \in Nat \ {0}]_vars

\* the ages compared, in milliseconds: every whole hour up to MaxAgeHours, a
\* millisecond less and a millisecond more
Ages ==
    {h * SecondsPerHour * MillisPerSecond + e : h \in 0..MaxAgeHours, e \in {-1, 0, 1}}

\* a TTL in hours as an age
HoursAsAge(ttl) == ttl * SecondsPerHour * MillisPerSecond

\* the TTLs compared, in hours: the shortest, a middle one and the longest
\* that leaves a greater age to compare
TTLs == {1, MaxAgeHours \div 2, MaxAgeHours - 1}

\* the ages at which loadCachedPrice returns the price of this record under
\* this config with the TTL set to ttl hours: the record stamped with the
\* current second, the load that many milliseconds later
ValidAges(cfg, file, time, ttl) ==
    {age \in Ages :
       LoadCachedPrice([cfg EXCEPT !.advanced.cacheExpirationHours = Num(ttl)],
                       [file EXCEPT !.value.lastUpdate = Num(FloorSeconds(time))],
                       FloorSeconds(time) * MillisPerSecond + age) # Null}

\* loadCachedPrice has just run on a record with a price to return and
\* reached its age test
AgeTested ==
    /\ CachingEnabled(config)
    /\ Emitted(log, "Cache is valid") \/ Emitted(log, "Cache expired")

\* C15: for each TTL compared, a record that loadCachedPrice accepts at some age is
\* accepted at every smaller age, a record of age exactly TTL is accepted,
\* and a record of any age greater than TTL is rejected.
C15_ValidityMonotonicInAge ==
    AgeTested =>
      \A ttl \in TTLs :
        LET valid == ValidAges(config, cacheFile, now, ttl)
        IN  /\ \A a \in valid : \A b \in Ages \ valid : a < b
            /\ HoursAsAge(ttl) \in valid
            /\ \A a \in Ages : a > HoursAsAge(ttl) => a \notin valid

\* loadCachedPrice has accepted a record under a TTL of 6 hours
C15_Witness ==
    /\ AgeTested
    /\ Emitted(log, "Cache is valid")
    /\ config.advanced.cacheExpirationHours = Num(DefaultCacheExpirationHours)
    /\ ValidAges(config, cacheFile, now, DefaultCacheExpirationHours)
         = {a \in Ages : a <= HoursAsAge(DefaultCacheExpirationHours)}

\* the price field of the cache file, if it has one
StoredPrice(file) ==
    IF file.kind = "json" /\ file.value.t = "object" THEN file.value.price ELSE Undefined

\* the state is as an application of this fetch result leaves it: the item
\* holds the floored price, and so does the cache file where it is written
Applied(body) ==
    /\ bitcoin # Null
    /\ bitcoin.Price = MathFloor(body.value.item0.basePrice)
    /\ CachingEnabled(config) /\ fsWritable => StoredPrice(cacheFile) = Num(bitcoin.Price)

\* C16: applying a successful fetch result to the state its first
\* application left changes neither the item's price nor the cached price,
\* and the difference it logs is 0.
C16_SecondApplicationIdempotent ==
    [][\A i \in Requests : \A body \in SuccessBodies :
         ResEnd(i, body) /\ Applied(body) =>
           /\ bitcoin'.Price = bitcoin.Price
           /\ StoredPrice(cacheFile') = StoredPrice(cacheFile)
           /\ reqs'[i].promise = "true"
           /\ LoggingEnabled(config) =>
                 log'[1] = Delta(bitcoin.Price, bitcoin.Price) /\ log'[1].diff = 0]_vars

\* a tick's fetch has applied the price the item and the cache already held
\* from an earlier fetch
C16_Witness ==
    /\ ticks >= 1
    /\ log # <<>>
    /\ log[1] = Delta(15000, 15000)
    /\ bitcoin.Price = 15000
    /\ StoredPrice(cacheFile) = Num(15000)

\* C17: every handling of a fetch failure and every cache load (in a failure
\* handler or in the startup fallback, whatever record it finds) leaves the
\* cache file as it was; the only steps that change the cache file are
\* successful fetches.
C17_OnlySuccessWritesCache ==
    [][/\ ((\E i \in Requests : FailureHandling(i)) \/ StartupFallback)
            => cacheFile' = cacheFile
       /\ cacheFile' # cacheFile
            => \E i \in Requests : \E body \in SuccessBodies :
                 ResEnd(i, body) /\ reqs'[i].promise = "true"]_vars

\* a failure handler has just loaded a record it found expired, and the
\* record is still in the cache file
C17_Witness ==
    /\ \E i \in Requests : reqs[i].promise = "false"
    /\ Emitted(log, "Cache expired")
    /\ cacheFile = JsonFile(CacheRecord(Num(14000), Str("pve"), HoursAgo(7)))

\* C18: when a fetch succeeds with caching enabled and the cache file cannot
\* be written, the item's price is still the floored fetched price, the
\* cycle reports success, the failure is logged (logging being enabled),
\* the cache file is as it was, and the timer and postDBLoadAsync are left
\* as they were, so that later cycles run as ever.
C18_FailedWriteNotFatal ==
    [][\A i \in Requests : \A body \in SuccessBodies :
         ResEnd(i, body) /\ CachingEnabled(config) /\ ~fsWritable =>
           /\ IsFloorOf(bitcoin'.Price, body.value.item0.basePrice)
           /\ reqs'[i].promise = "true"
           /\ LoggingEnabled(config) => Emitted(log', "Failed to save price to cache")
           /\ cacheFile' = cacheFile
           /\ UNCHANGED <<timers, pc, escaped, unhandled>>]_vars

\* the startup fetch succeeded without its cache write, and a later cycle
\* has run to its end
C18_Witness ==
    /\ CachingEnabled(config)
    /\ ~fsWritable
    /\ Len(reqs) >= 2
    /\ reqs[1].promise = "true"
    /\ reqs[2].promise # "pending" /\ reqs[2].resumed
    /\ bitcoin.Price = 15000
    /\ cacheFile = Missing

\* the loaded config has enablePriceCaching set to false
CachingOff(cfg) ==
    /\ cfg.t = "object"
    /\ cfg.advanced.t = "object"
    /\ cfg.advanced.enablePriceCaching = Bool(FALSE)

\* the messages of loadCachedPrice and savePriceToCache once past their
\* test of enablePriceCaching
CacheMessages ==
    {"No price cache file found", "Failed to load cached price",
     "Invalid Bitcoin price in cache", "Cache expired", "Cache is valid",
     "Price cached successfully", "Failed to save price to cache"}

\* C19: under a config with caching disabled no step changes the cache file
\* or gets as far as reading or writing it, a load returns nothing whatever
\* the file holds, and every handling of a fetch failure, the startup
\* fallback included, leaves the item as it was.
C19_CachingOffLeavesCacheAlone ==
    [][pc # "init" /\ CachingOff(config) =>
         /\ cacheFile' = cacheFile
         /\ \A k \in 1..Len(log') : log'[k].m \notin CacheMessages
         /\ LoadCachedPrice(config, cacheFile, now) = Null
         /\ ((\E i \in Requests : FailureHandling(i)) \/ StartupFallback)
              => bitcoin' = bitcoin]_vars

\* with caching disabled and a fresh record of another price in the cache
\* file, a fetch has succeeded and a later one has failed: the item keeps
\* the fetched price and the record is as it was
C19_Witness ==
    /\ CachingOff(config)
    /\ cacheFile = FreshRecord
    /\ bitcoin # Null
    /\ bitcoin.Price = 15000
    /\ \E i \in Requests : reqs[i].promise = "true"
    /\ \E i \in Requests : reqs[i].promise = "false" /\ reqs[i].resumed

\* the loaded config has enablePeriodicUpdates set to true
PeriodicOn(cfg) == cfg.t = "object" /\ cfg.enablePeriodicUpdates = Bool(TRUE)

\* C20: once postDBLoadAsync has started its startup fetch, the requests
\* issued are that fetch and one per timer tick; under a config without
\* periodic updates no timer is armed, no tick fires and the startup fetch
\* stays the only request, before and after it resolves; under a config
\* with periodic updates the timer is armed once postDBLoadAsync is done.
C20_PeriodicToggle ==
    pc \in {"awaiting", "done"} =>
      /\ Len(reqs) = ticks + 1
      /\ ~PeriodicOn(config) => timers = 0 /\ ticks = 0 /\ Len(reqs) = 1
      /\ PeriodicOn(config) /\ pc = "done" => timers = 1

\* with periodic updates disabled the startup cycle is over, time has
\* passed, and its fetch is the only request there is
C20_Witness ==
    /\ pc = "done"
    /\ config.t = "object"
    /\ config.enablePeriodicUpdates = Bool(FALSE)
    /\ now > StartTime
    /\ Len(reqs) = 1
    /\ timers = 0 /\ ticks = 0

\* the config has the default values: interval 2700 s, logging on, periodic
\* updates on, caching on, TTL 6 h, timeout 15000 ms
HasDefaultValues(cfg) ==
    /\ cfg.t = "object"
    /\ cfg.updateInterval = Num(2700)
    /\ cfg.enableLogging = Bool(TRUE)
    /\ cfg.enablePeriodicUpdates = Bool(TRUE)
    /\ cfg.advanced.t = "object"
    /\ cfg.advanced.enablePriceCaching = Bool(TRUE)
    /\ cfg.advanced.cacheExpirationHours = Num(6)
    /\ cfg.advanced.apiTimeout = Num(15000)

\* the response whose first item has basePrice 15000
Body15000 == JsonFile(Response(Undefined, PriceItem(Rat(15000, 1))))

\* C21: on a start with no config file, no cache file and a file system
\* that takes writes, postDBLoadAsync creates the config file with the
\* default values and holds the same values in memory; and when the
\* startup fetch then ends with basePrice 15000, the item's price becomes
\* 15000 and the cache file is created holding 15000, the tag pve and the
\* current time.
C21_FreshStart ==
    [][/\ \A container \in Containers :
            /\ LooksUp(container)
            /\ configFile = Missing /\ cacheFile = Missing /\ fsWritable
            => /\ configFile'.kind = "json"
               /\ HasDefaultValues(configFile'.value)
               /\ config' = configFile'.value
       /\ /\ pc = "awaiting"
          /\ ResEnd(1, Body15000)
          /\ HasDefaultValues(config)
          /\ configFile = JsonFile(config)
          /\ cacheFile = Missing /\ fsWritable
          => /\ bitcoin'.Price = 15000
             /\ cacheFile' = JsonFile(CacheRecord(Num(15000), Str("pve"),
                                                  Num(FloorSeconds(now))))
             /\ configFile' = JsonFile(config)]_vars

\* the startup fetch has just ended with 15000 on a cache file that was
\* missing: the config file and the config hold the defaults, the item 15000,
\* and the cache file 15000 stamped with the current time
C21_Witness ==
    /\ pc = "awaiting"
    /\ Len(reqs) = 1
    /\ reqs[1].promise = "true"
    /\ log # <<>>
    /\ log[1] = Delta(13000, 15000)
    /\ Emitted(log, "Price cached successfully")
    /\ configFile = JsonFile(config)
    /\ HasDefaultValues(config)
    /\ bitcoin.Price = 15000
    /\ cacheFile = JsonFile(CacheRecord(Num(15000), Str("pve"), Num(FloorSeconds(now))))

\* C22: with caching enabled and a file system that takes writes, in every
\* state after postDBLoadAsync has finished its startup cycle, whatever
\* cycles have overlapped and in whatever order they ended, a valid cache
\* record holds the item's price.
C22_PriceConvergesWithCache ==
    /\ pc = "done"
    /\ fsWritable
    /\ ValidCache(config, cacheFile, now)
    => bitcoin.Price = cacheFile.value.price.v

\* two tick cycles overlapped: the earlier has timed out and is still to
\* raise its abort error, the later has succeeded; the cache record is valid
\* and holds the item's price
C22_Witness ==
    /\ pc = "done"
    /\ fsWritable
    /\ Len(reqs) = 3
    /\ reqs[2].promise = "false" /\ reqs[2].phase = "aborting"
    /\ reqs[3].promise = "true"
    /\ ValidCache(config, cacheFile, now)
    /\ bitcoin.Price = 15000
    /\ cacheFile.value.price.v = 15000

\* the messages loadCachedPrice logs, one per load that gets past its test
\* of enablePriceCaching
LoadMessages ==
    {"No price cache file found", "Failed to load cached price",
     "Invalid Bitcoin price in cache", "Cache expired", "Cache is valid"}

\* the messages of the three sub-cases of handleApiFailure
SubCaseMessages ==
    {"Fallback to cached price", "Current price matches cache",
     "No valid cache available, keeping current price"}

\* how many messages of this set the log of a step holds
Count(l, messages) == Cardinality({k \in 1..Len(l) : l[k].m \in messages})

\* each run of a failure handler loads the cache once and logs one sub-case
HandlerLoadsOnce ==
    [][LoggingEnabled(config) /\ CachingEnabled(config) =>
         \A i \in Requests :
           FailureHandling(i) =>
             Count(log', LoadMessages) = 1 /\ Count(log', SubCaseMessages) = 1]_vars

\* C23: under a config with logging and caching enabled, a cycle that ends
\* in fetch failure loads the cache once and logs one of the three
\* sub-cases: its failure is handled once, that handling loads the cache
\* once and logs one sub-case, and the caller that resumes afterwards
\* (postDBLoadAsync at startup, the timer callback on a tick) loads nothing
\* more.
C23_OneLoadPerFailedCycle ==
    [][LoggingEnabled(config) /\ CachingEnabled(config) =>
         /\ \A i \in Requests :
              FailureHandling(i) =>
                /\ reqs[i].outcomes = 0
                /\ Count(log', LoadMessages) = 1
                /\ Count(log', SubCaseMessages) = 1
         /\ StartupContinue => Count(log', LoadMessages) = 0
         /\ \A i \in Requests : TickContinue(i) => Count(log', LoadMessages) = 0]_vars

\* the delays after a save at which a load is tried, in milliseconds
Delays == {d \in Ages : d >= 0}

\* savePriceToCache has just written the item's price, a price > 0, under a
\* config with caching enabled
SaveJustRan ==
    /\ CachingEnabled(config)
    /\ Emitted(log, "Price cached successfully")
    /\ bitcoin.Price > 0

\* what loadCachedPrice returns from the cache file this long after now,
\* the TTL set to ttl hours
LoadAfter(delay, ttl) ==
    LoadCachedPrice([config EXCEPT !.advanced.cacheExpirationHours = Num(ttl)],
                    cacheFile, now + delay)

\* C24: after savePriceToCache has written a price p > 0, with no save
\* since, a load no later than the TTL after the save returns p and a load
\* later than the TTL after the save returns nothing, for each TTL compared.
C24_SaveLoadRoundTrip ==
    SaveJustRan =>
      \A ttl \in TTLs : \A delay \in Delays :
        LoadAfter(delay, ttl) = IF delay <= HoursAsAge(ttl)
                                THEN Num(bitcoin.Price)
                                ELSE Null

\* the round trip as the code has it: the TTL runs from the start of the
\* second in which the save happened
RoundTripFromWholeSecond ==
    SaveJustRan =>
      \A ttl \in TTLs : \A delay \in Delays :
        LoadAfter(delay, ttl)
          = IF now + delay - FloorSeconds(now) * MillisPerSecond <= HoursAsAge(ttl)
            THEN Num(bitcoin.Price)
            ELSE Null

\* what the callbacks of the timer hand to LBPR.log after a failed update
TickFailed(i) ==
    /\ TickContinue(i)
    /\ reqs[i].promise = "false"
    /\ LoggingEnabled(config)

\* C25: whenever a tick's callback logs "Scheduled update failed, price
\* remains unchanged", the item's price is the price it had when that tick
\* started
C25_FailedTickLeavesPrice ==
    [][\A i \in 2..Len(reqs) :
          TickFailed(i) /\ Emitted(log', "Scheduled update failed, price remains unchanged")
              => Num(bitcoin.Price) = reqs[i].priceAtStart]_vars

\* request i's cycle completes with a successful fetch
CompletesBySuccess(i) ==
    /\ reqs[i].promise = "pending"
    /\ \E body \in SuccessBodies : ResEnd(i, body)

\* request i's cycle completes with a fetch failure
CompletesByFailure(i) ==
    /\ reqs[i].promise = "pending"
    /\ FailureHandling(i)

\* the step sets the item's price to the price of a valid cache record
FallsBackToValidCache ==
    /\ ValidCache(config, cacheFile, now)
    /\ bitcoin'.Price = cacheFile.value.price.v

\* C26: once the item is found, its record is never replaced or removed, and
\* its price changes only in a step that completes a cycle: by a successful
\* fetch, or by a fallback (of the failure handler or of the startup code) to
\* a valid cached price; no other step changes it.
C26_PriceChangesOnlyAtCompletion ==
    [][bitcoin # Null =>
         /\ bitcoin' # Null
         /\ bitcoin'.Id = bitcoin.Id
         /\ bitcoin'.Price # bitcoin.Price =>
               \/ \E i \in Requests : CompletesBySuccess(i)
               \/ /\ (\E i \in Requests : CompletesByFailure(i)) \/ StartupFallback
                  /\ FallsBackToValidCache]_vars

\* what holds of the frame: the record stays, and its price changes only in
\* a step of a response or failure handler or of the startup fallback, to the
\* fetched price or to the price loadCachedPrice returned
PriceChangesOnlyInHandlers ==
    [][bitcoin # Null =>
         /\ bitcoin' # Null
         /\ bitcoin'.Id = bitcoin.Id
         /\ bitcoin'.Price # bitcoin.Price =>
               \/ \E i \in Requests : CompletesBySuccess(i)
               \/ /\ (\E i \in Requests : FailureHandling(i)) \/ StartupFallback
                  /\ Num(bitcoin'.Price) = LoadCachedPrice(config, cacheFile, now)]_vars

====
